---- MODULE Spec2Model ----
(***************************************************************************)
(* The save-cycle scheduler of TriangleSaver (src/ableton_saver_v6.py):    *)
(* the run/stop flag, the configured interval, the due time, the labels    *)
(* the scheduler writes, and the 100 ms QTimer that drives timer_loop.     *)
(*                                                                         *)
(* Time is counted in timer periods (100 ms).  interval_seconds is kept in *)
(* seconds as in the source; next_save_time and now are clock readings in  *)
(* timer periods, so "time.time() + interval_seconds" is                   *)
(* now + interval_seconds * TicksPerSecond.                                *)
(***************************************************************************)
EXTENDS Integers, Sequences, FiniteSets, TLC

\* ---------------------------------------------------------------- bounds
\* clock reading (in timer periods) when the window is constructed
Epoch == 1000
\* how many timer periods of behaviour are explored after construction
MaxElapsed == 11
\* longest time (timer periods) one osascript invocation blocks timer_loop
MaxSaveDuration == 2
\* how many user commands (button clicks) one behaviour may contain
MaxClicks == 3

\* ------------------------------------------------------ program constants
\* self.timer.start(100): the timer fires every 100 ms, ten times a second
TicksPerSecond == 10
\* "delay 0.2" inside the save script: a script that runs to completion
\* blocks for at least two timer periods
ScriptDelay == 2
\* self.interval_seconds = 300
DefaultInterval == 300

\* intervals = [("1m", 60), ("5m", 300), ("10m", 600), ("15m", 900)]
intervals == <<60, 300, 600, 900>>

Buttons == 1..Len(intervals)

\* the texts the user types into entry_custom that the model explores
CustomTexts == {"", "abc", "nan", "inf", "0", "0.5", "1", "2.05"}

\* the applications the workspace may report as running
RunningAppSets == { {"Finder"}, {"Finder", "Live"} }

VARIABLES
    now,              \* time.time(), in timer periods
    timer_pending,    \* the QTimer has timed out and timer_loop is due to run
    is_running,       \* self.is_running
    interval_seconds, \* self.interval_seconds
    next_save_time,   \* self.next_save_time (timer periods; 0 = never set)
    time_unit,        \* self.time_unit
    selected,         \* IntervalButton.selected, per preset button
    lbl_timer,        \* text of self.lbl_timer
    lbl_timer_desc,   \* text of self.lbl_timer_desc
    lbl_last_saved,   \* text of self.lbl_last_saved
    running_apps,     \* NSWorkspace.runningApplications(), by localizedName
    ev,               \* what the last handler that ran did: its probe, its
                      \* save attempt, the sound, the clock and the due time
                      \* it read
    changed_in_run,   \* the interval was set since the last start or stop,
                      \* while the scheduler was running
    in_flight,        \* osascript processes started by run_applescript
                      \* that have not exited yet
    clicks,           \* how many user commands have been issued so far
    visible,          \* self.isVisible()
    action_show_hide, \* text of the tray menu's show / hide action
    app_exec          \* app.exec() is running: quit() has not been called

vars == <<now, timer_pending, is_running, interval_seconds, next_save_time,
          time_unit, selected, lbl_timer, lbl_timer_desc, lbl_last_saved,
          running_apps, ev, changed_in_run, in_flight, clicks, visible,
          action_show_hide, app_exec>>

\* the window, its tray menu entry and the event loop
window == <<visible, action_show_hide, app_exec>>

\* ------------------------------------------------------- pure helpers

\* Python int(x) of the quotient n/d (d > 0): truncation toward zero
IntTrunc(n, d) == IF n >= 0 THEN n \div d ELSE -((-n) \div d)

Digit(d) ==
    CASE d = 0 -> "0" [] d = 1 -> "1" [] d = 2 -> "2" [] d = 3 -> "3"
      [] d = 4 -> "4" [] d = 5 -> "5" [] d = 6 -> "6" [] d = 7 -> "7"
      [] d = 8 -> "8" [] d = 9 -> "9"

RECURSIVE Decimal(_)
Decimal(n) == IF n < 10 THEN Digit(n) ELSE Decimal(n \div 10) \o Digit(n % 10)

\* the format spec ":02d": zero padded to width two, sign included
Format02d(n) ==
    IF n < 0 THEN "-" \o Decimal(-n)
    ELSE IF n < 10 THEN "0" \o Digit(n)
    ELSE Decimal(n)

\* update_timer_display: divmod floors, as \div and % do
update_timer_display(seconds) ==
    Format02d(seconds \div 60) \o ":" \o Format02d(seconds % 60)

\* time.strftime('%H:%M:%S') at clock reading t
strftime(t) ==
    LET s == t \div TicksPerSecond
    IN  Format02d((s \div 3600) % 24) \o ":" \o Format02d((s \div 60) % 60)
          \o ":" \o Format02d(s % 60)

\* A Python float is an IEEE 754 double.  A value x >= 0 is kept as
\* [m, p]: x = (M / 2^53) * 2^p, where the 53-bit significand M has its top
\* bit set and is held as three limbs, m = <<M1, M2, M3>> with
\* M = M1 * 2^36 + M2 * 2^18 + M3, M1 of 17 bits, M2 and M3 of 18 bits.
\* Zero has m = <<0, 0, 0>>.
Limb == 262144

TopLimb == 131072

Zero == [m |-> <<0, 0, 0>>, p |-> 0]

\* 2^n
RECURSIVE Pow2(_)
Pow2(n) == IF n = 0 THEN 1 ELSE 2 * Pow2(n - 1)

\* how many binary digits n has
RECURSIVE BitLength(_)
BitLength(n) == IF n = 0 THEN 0 ELSE 1 + BitLength(n \div 2)

\* the significand m plus one unit in the last place, with value * 2^p
AddUlp(m, p) ==
    LET s3 == m[3] + 1
        s2 == m[2] + (s3 \div Limb)
        s1 == m[1] + (s2 \div Limb)
    IN  IF s1 = TopLimb
        THEN [m |-> <<TopLimb \div 2, 0, 0>>, p |-> p + 1]
        ELSE [m |-> <<s1, s2 % Limb, s3 % Limb>>, p |-> p]

\* round-to-nearest, ties to even: m is the significand cut off, and what
\* was cut off is rest/whole of a unit in the last place
RoundNearestEven(m, p, rest, whole) ==
    IF 2 * rest > whole \/ (2 * rest = whole /\ m[3] % 2 = 1)
    THEN AddUlp(m, p)
    ELSE [m |-> m, p |-> p]

\* num/den = (n/d) * 2^p with 1/2 <= n/d < 1, as <<n, d, p>>
RECURSIVE Normalise(_, _, _)
Normalise(num, den, p) ==
    IF num >= den THEN Normalise(num, 2 * den, p + 1)
    ELSE IF 2 * num < den THEN Normalise(2 * num, den, p - 1)
    ELSE <<num, den, p>>

\* the double nearest to the fraction num/den >= 0: what float() makes of a
\* decimal text.  The significand is the quotient by long division, limb by
\* limb, and the remainder decides the rounding.
Nearest(num, den) ==
    IF num = 0 THEN Zero
    ELSE LET n  == Normalise(num, den, 0)
             d  == n[2]
             t1 == n[1] * TopLimb
             t2 == (t1 % d) * Limb
             t3 == (t2 % d) * Limb
         IN  RoundNearestEven(<<t1 \div d, t2 \div d, t3 \div d>>, n[3],
                              t3 % d, d)

\* x * k for a double x and an integer k in 1..64: the exact product, limb
\* by limb with carry, cut back to 53 bits and rounded
FloatTimes(x, k) ==
    IF x.m = Zero.m THEN x
    ELSE LET t3 == x.m[3] * k
             t2 == x.m[2] * k + (t3 \div Limb)
             t1 == x.m[1] * k + (t2 \div Limb)
             \* the product is t1 * 2^36 + (t2 % Limb) * 2^18 + (t3 % Limb);
             \* it has s digits more than 53
             s  == BitLength(t1) - 17
             w  == Pow2(s)
             u2 == (t1 % w) * Limb + (t2 % Limb)
             u3 == (u2 % w) * Limb + (t3 % Limb)
         IN  RoundNearestEven(<<t1 \div w, u2 \div w, u3 \div w>>, x.p + s,
                              u3 % w, w)

\* int(x) for a double 0 <= x < 2^17: the digits before the binary point
FloatToInt(x) ==
    IF x.m = Zero.m \/ x.p <= 0 THEN 0 ELSE x.m[1] \div Pow2(17 - x.p)

\* the number a decimal text denotes, in hundredths
Hundredths(text) ==
    CASE text = "0"    -> 0
      [] text = "0.5"  -> 50
      [] text = "1"    -> 100
      [] text = "2.05" -> 205

\* float(text): the double, or the way the conversion goes wrong
ParseFloat(text) ==
    CASE text \in {"0", "0.5", "1", "2.05"}
                      -> [cls |-> "finite", x |-> Nearest(Hundredths(text), 100)]
      [] text = "nan" -> [cls |-> "nan", x |-> Zero]
      [] text = "inf" -> [cls |-> "inf", x |-> Zero]
      [] OTHER        -> [cls |-> "ValueError", x |-> Zero]

\* float() of every text the model explores, converted once
FloatTable == [text \in CustomTexts |-> ParseFloat(text)]

float(text) == FloatTable[text]

\* the exception the try block raises for a value that is not finite:
\* float() raises ValueError for a text that is no number, int() raises
\* ValueError for a NaN and OverflowError for an infinity
Raised(val) ==
    CASE val.cls = "nan" -> "ValueError"
      [] val.cls = "inf" -> "OverflowError"
      [] OTHER           -> val.cls

\* an except clause that names ValueError only
except_pass_ValueError(exc) == exc = "ValueError"

\* "except: pass": the bare clause catches whatever the try block raised
except_pass(exc) == TRUE

\* int(val * 60) if self.time_unit == "MIN" else int(val)
CustomSeconds(val, unit) ==
    IF unit = "MIN" THEN FloatToInt(FloatTimes(val.x, 60))
    ELSE FloatToInt(val.x)

\* the seconds of every accepted text under either unit, computed once
SecondsTable ==
    [text \in {t \in CustomTexts : float(t).cls = "finite"} |->
       [unit \in {"SEC", "MIN"} |-> CustomSeconds(float(text), unit)]]

\* "Live" in name or "Ableton" in name
NameMatches(name) == name \in {"Live", "Ableton Live 11 Suite"}

\* is_ableton_running that answers from the list although the query raised
is_ableton_running_IgnoresError(apps, raises) ==
    \E name \in apps : NameMatches(name)

\* is_ableton_running whose except clause answers True
is_ableton_running_TrueOnError(apps, raises) ==
    IF raises THEN TRUE ELSE \E name \in apps : NameMatches(name)

\* is_ableton_running: any exception of the query is swallowed and gives False
is_ableton_running(apps, raises) ==
    IF raises THEN FALSE ELSE \E name \in apps : NameMatches(name)

\* run_applescript: returncode == 0, or False when Popen raises
run_applescript(returncode, raises) ==
    IF raises THEN FALSE ELSE returncode = 0

\* perform_save that ignores the script's result
perform_save_AlwaysSaved(success, t) == "Saved @ " \o strftime(t)

\* perform_save: the text it leaves in lbl_last_saved
perform_save(success, t) ==
    IF success THEN "Saved @ " \o strftime(t)
    ELSE "Save failed @ " \o strftime(t)

\* what a handler that neither probes nor saves leaves in ev.  tick: the
\* handler was timer_loop; flying: the most osascript processes running at
\* once while it ran; replaced: the due time a start overwrote; caught: the
\* exception its except clause swallowed
NoEvent ==
    [probes |-> 0, raised |-> FALSE, present |-> FALSE, saves |-> 0,
     ok |-> FALSE, notifies |-> 0, t0 |-> 0, due |-> 0,
     after_pause |-> FALSE, tick |-> FALSE, flying |-> 0, replaced |-> 0,
     caught |-> ""]

\* what a timer_loop that neither probes nor saves leaves in ev
NoActionTick == [NoEvent EXCEPT !.tick = TRUE]

\* the handler recorded in e was a timer_loop that found the save due and
\* the target not running
PausedTick(e) == e.probes = 1 /\ e.saves = 0

\* ------------------------------------------------------------- Init
Init ==
    /\ now = Epoch
    /\ timer_pending = FALSE
    /\ is_running = FALSE
    /\ interval_seconds = DefaultInterval
    /\ next_save_time = 0
    /\ time_unit = "MIN"
    /\ selected = [b \in Buttons |-> b = 2]
    /\ lbl_timer = "05:00"
    /\ lbl_timer_desc = "NEXT SAVE CYCLE"
    /\ lbl_last_saved = "Waiting to start..."
    /\ running_apps \in RunningAppSets
    /\ ev = NoEvent
    /\ changed_in_run = FALSE
    /\ in_flight = 0
    /\ clicks = 0
    /\ visible = TRUE
    /\ action_show_hide = "Hide Window"
    /\ app_exec = TRUE

\* ------------------------------------------------------------- actions

\* one more user command, delivered by the event loop
Click ==
    /\ app_exec
    /\ clicks < MaxClicks
    /\ clicks' = clicks + 1

\* a click on a button of the window, which has to be on screen
ButtonClick == visible /\ Click

\* the clock advances by one timer period; the QTimer times out
Elapse ==
    /\ app_exec
    /\ now < Epoch + MaxElapsed
    /\ now' = now + 1
    /\ timer_pending' = TRUE
    /\ UNCHANGED <<is_running, interval_seconds, next_save_time, time_unit,
                   selected, lbl_timer, lbl_timer_desc, lbl_last_saved,
                   running_apps, ev, changed_in_run, in_flight, clicks,
                   window>>

\* the user opens or quits applications
AppsChange ==
    /\ app_exec
    /\ \E apps \in RunningAppSets :
         /\ apps # running_apps
         /\ running_apps' = apps
    /\ UNCHANGED <<now, timer_pending, is_running, interval_seconds,
                   next_save_time, time_unit, selected, lbl_timer,
                   lbl_timer_desc, lbl_last_saved, ev, changed_in_run,
                   in_flight, clicks, window>>

\* set_interval that also restarts the running cycle
set_interval_Restart(b) ==
    /\ ButtonClick
    /\ interval_seconds' = intervals[b]
    /\ selected' = [c \in Buttons |-> c = b]
    /\ lbl_timer' = update_timer_display(intervals[b])
    /\ ev' = NoEvent
    /\ changed_in_run' = is_running
    /\ next_save_time' = IF is_running
                         THEN now + intervals[b] * TicksPerSecond
                         ELSE next_save_time
    /\ UNCHANGED <<now, timer_pending, is_running, time_unit,
                   lbl_timer_desc, lbl_last_saved, running_apps, in_flight,
                   window>>

\* a preset button is clicked
set_interval(b) ==
    /\ ButtonClick
    /\ interval_seconds' = intervals[b]
    /\ selected' = [c \in Buttons |-> c = b]
    /\ lbl_timer' = update_timer_display(intervals[b])
    /\ ev' = NoEvent
    /\ changed_in_run' = is_running
    /\ UNCHANGED <<now, timer_pending, is_running, next_save_time, time_unit,
                   lbl_timer_desc, lbl_last_saved, running_apps, in_flight,
                   window>>

\* SEC or MIN is clicked
set_time_unit(unit) ==
    /\ ButtonClick
    /\ time_unit' = unit
    /\ ev' = NoEvent
    /\ UNCHANGED <<now, timer_pending, is_running, interval_seconds,
                   next_save_time, selected, lbl_timer, lbl_timer_desc,
                   lbl_last_saved, running_apps, changed_in_run, in_flight,
                   window>>

\* CustomAccepted that leaves the preset buttons as they are
CustomAccepted_KeepsSelection(seconds) ==
    /\ interval_seconds' = seconds
    /\ UNCHANGED selected
    /\ lbl_timer' = update_timer_display(seconds)
    /\ changed_in_run' = is_running

\* the body of the try block, reached when float() and int() did not raise
CustomAccepted(seconds) ==
    /\ interval_seconds' = seconds
    /\ selected' = [c \in Buttons |-> FALSE]
    /\ lbl_timer' = update_timer_display(seconds)
    /\ changed_in_run' = is_running

\* SET is clicked with text in entry_custom
set_custom_interval(text) ==
    LET val == float(text)
    IN  /\ ButtonClick
        /\ IF val.cls = "finite"
           THEN /\ CustomAccepted(SecondsTable[text][time_unit])
                /\ ev' = NoEvent
                /\ UNCHANGED app_exec
           ELSE \* float() or int() raised before anything was assigned
                /\ UNCHANGED <<interval_seconds, selected, lbl_timer,
                               changed_in_run>>
                /\ ev' = [NoEvent EXCEPT !.caught = Raised(val)]
                \* an exception that leaves the slot ends the program
                /\ app_exec' = except_pass(Raised(val))
        /\ UNCHANGED <<now, timer_pending, is_running, next_save_time,
                       time_unit, lbl_timer_desc, lbl_last_saved,
                       running_apps, in_flight, visible, action_show_hide>>

\* StartBranch that resumes the run before: a due time left stored is kept
StartBranch_ResumesDueTime ==
    /\ next_save_time' = IF next_save_time # 0 THEN next_save_time
                         ELSE now + interval_seconds * TicksPerSecond
    /\ lbl_timer_desc' = "MONITORING ABLETON..."
    /\ UNCHANGED lbl_timer

\* StartBranch that schedules from the default interval, not the configured
StartBranch_DefaultInterval ==
    /\ next_save_time' = now + DefaultInterval * TicksPerSecond
    /\ lbl_timer_desc' = "MONITORING ABLETON..."
    /\ UNCHANGED lbl_timer

\* the branch of toggle_running taken when is_running has become True
StartBranch ==
    /\ next_save_time' = now + interval_seconds * TicksPerSecond
    /\ lbl_timer_desc' = "MONITORING ABLETON..."
    /\ UNCHANGED lbl_timer

\* StopBranch that leaves the timer display as the last tick wrote it
StopBranch_KeepsDisplay ==
    /\ lbl_timer_desc' = "NEXT SAVE CYCLE"
    /\ UNCHANGED <<lbl_timer, next_save_time>>

\* StopBranch that clears the due time
StopBranch_ClearsDueTime ==
    /\ lbl_timer_desc' = "NEXT SAVE CYCLE"
    /\ lbl_timer' = update_timer_display(interval_seconds)
    /\ next_save_time' = 0

\* StopBranch that shows the default interval, not the configured one
StopBranch_ShowsDefault ==
    /\ lbl_timer_desc' = "NEXT SAVE CYCLE"
    /\ lbl_timer' = update_timer_display(DefaultInterval)
    /\ UNCHANGED next_save_time

\* the branch of toggle_running taken when is_running has become False
StopBranch ==
    /\ lbl_timer_desc' = "NEXT SAVE CYCLE"
    /\ lbl_timer' = update_timer_display(interval_seconds)
    /\ UNCHANGED next_save_time

\* the START / STOP button is clicked
toggle_running ==
    /\ ButtonClick
    /\ is_running' = ~is_running
    /\ IF is_running'
       THEN StartBranch /\ ev' = [NoEvent EXCEPT !.replaced = next_save_time]
       ELSE StopBranch /\ ev' = NoEvent
    /\ changed_in_run' = FALSE
    /\ UNCHANGED <<now, timer_pending, interval_seconds, time_unit, selected,
                   lbl_last_saved, running_apps, in_flight, window>>

\* remaining = int(self.next_save_time - time.time()), in seconds
Remaining(due, t) == IntTrunc(due - t, TicksPerSecond)

\* the test "remaining <= 0"
IsDue(remaining) == remaining <= 0

\* Reschedule that catches up: one interval after the due time that passed
Reschedule_CatchUp(t, interval) == next_save_time + interval * TicksPerSecond

\* Reschedule from the clock reading with which the tick began
Reschedule_FromTickStart(t, interval) == now + interval * TicksPerSecond

\* the due time set after a save attempt, from the clock read once the
\* attempt has returned
Reschedule(t, interval) == t + interval * TicksPerSecond

\* how often play_notification_sound is called after a save attempt
Notifications(success) == 1

\* communicate that returns without waiting for the process
communicate_NoWait(running, started) == running

\* p.communicate(script): returns once the process just started has exited
communicate(running, started) == running - started

\* timer_loop found the save due and the target running: the save attempt,
\* which blocks for d timer periods, then the reschedule and the sound
SaveBranch(raised, present) ==
    \E popen_raises \in BOOLEAN, returncode \in {0, 1},
       d \in 0..MaxSaveDuration :
      LET success == run_applescript(returncode, popen_raises)
          \* a Popen that raised has started no process
          started == IF popen_raises THEN 0 ELSE 1
      IN  \* a script that ran to completion has run its delay; a Popen
          \* that raised has run nothing
          /\ success => d >= ScriptDelay
          /\ popen_raises => d = 0
          /\ now + d <= Epoch + MaxElapsed
          /\ now' = now + d
          /\ lbl_last_saved' = perform_save(success, now')
          /\ next_save_time' = Reschedule(now', interval_seconds)
          /\ timer_pending' = (d >= 1)
          /\ in_flight' = communicate(in_flight + started, started)
          /\ ev' = [probes |-> 1, raised |-> raised, present |-> present,
                    saves |-> 1, ok |-> success,
                    notifies |-> Notifications(success), t0 |-> now,
                    due |-> next_save_time, after_pause |-> PausedTick(ev),
                    tick |-> TRUE, flying |-> in_flight + started,
                    replaced |-> 0, caught |-> ""]
          /\ UNCHANGED <<lbl_timer, lbl_timer_desc>>

\* timer_loop found the save due and the target not running
PausedBranch(raised, present) ==
    /\ lbl_timer' = "PAUSED"
    /\ lbl_timer_desc' = "Open Ableton to resume"
    /\ timer_pending' = FALSE
    /\ ev' = [NoActionTick EXCEPT !.probes = 1, !.raised = raised,
                                  !.present = present, !.t0 = now,
                                  !.due = next_save_time,
                                  !.after_pause = PausedTick(ev)]
    /\ UNCHANGED <<now, next_save_time, lbl_last_saved, in_flight>>

\* timer_loop found time remaining
CountdownBranch(remaining) ==
    /\ lbl_timer' = update_timer_display(remaining)
    /\ timer_pending' = FALSE
    /\ ev' = NoActionTick
    /\ UNCHANGED <<now, next_save_time, lbl_timer_desc, lbl_last_saved,
                   in_flight>>

\* IdleBranch that keeps the countdown display going
IdleBranch_Countdown ==
    /\ lbl_timer' = update_timer_display(Remaining(next_save_time, now))
    /\ timer_pending' = FALSE
    /\ ev' = NoActionTick
    /\ UNCHANGED <<now, next_save_time, lbl_timer_desc, lbl_last_saved,
                   in_flight>>

\* timer_loop when is_running is False: the body of the if is skipped
IdleBranch ==
    /\ timer_pending' = FALSE
    /\ ev' = NoActionTick
    /\ UNCHANGED <<now, next_save_time, lbl_timer, lbl_timer_desc,
                   lbl_last_saved, in_flight>>

\* the test "if self.is_running" that never passes
Monitoring_Never == FALSE

\* the test "if self.is_running" that ignores the flag
Monitoring_Always == TRUE

\* the test "if self.is_running" at the head of timer_loop
Monitoring == is_running

\* the QTimer's timeout is delivered
timer_loop ==
    /\ app_exec
    /\ timer_pending
    /\ IF ~Monitoring
       THEN IdleBranch
       ELSE LET remaining == Remaining(next_save_time, now)
            IN  IF IsDue(remaining)
                THEN \E probe_raises \in BOOLEAN :
                       LET present ==
                             is_ableton_running(running_apps, probe_raises)
                       IN  IF present THEN SaveBranch(probe_raises, present)
                           ELSE PausedBranch(probe_raises, present)
                ELSE CountdownBranch(remaining)
    /\ UNCHANGED <<is_running, interval_seconds, time_unit, selected,
                   running_apps, changed_in_run, clicks, window>>

Next ==
    \/ Elapse
    \/ AppsChange
    \/ \E b \in Buttons : set_interval(b)
    \/ \E unit \in {"SEC", "MIN"} : set_time_unit(unit)
    \/ \E text \in CustomTexts : set_custom_interval(text)
    \/ toggle_running
    \/ timer_loop

Spec == Init /\ [][Next]_vars

\* The scheduler under the scheduling the event loop gives it: the clock
\* keeps advancing as far as the model follows it, and a QTimer timeout that
\* is pending is delivered.
SpecLive == Spec /\ WF_vars(Elapse) /\ WF_vars(timer_loop)

\* ------------------------------------------------- window and tray menu

\* everything the scheduler keeps and shows
scheduler == <<now, timer_pending, is_running, interval_seconds,
               next_save_time, time_unit, selected, lbl_timer, lbl_timer_desc,
               lbl_last_saved, running_apps, changed_in_run, in_flight>>

\* self.hide() and the tray menu entry that goes with it
Hide ==
    /\ visible' = FALSE
    /\ action_show_hide' = "Show Window"

\* the window is asked to close: the event is ignored, the window hidden
closeEvent ==
    /\ visible /\ Click
    /\ Hide
    /\ ev' = NoEvent
    /\ UNCHANGED <<scheduler, app_exec>>

\* close_app that stops the scheduler as it hides the window
close_app_Stops ==
    /\ ButtonClick
    /\ Hide
    /\ is_running' = FALSE
    /\ ev' = NoEvent
    /\ UNCHANGED <<now, timer_pending, interval_seconds, next_save_time,
                   time_unit, selected, lbl_timer, lbl_timer_desc,
                   lbl_last_saved, running_apps, changed_in_run, in_flight,
                   app_exec>>

\* the close button is clicked or Escape is pressed
close_app ==
    /\ ButtonClick
    /\ Hide
    /\ ev' = NoEvent
    /\ UNCHANGED <<scheduler, app_exec>>

\* the tray icon is clicked, the tray menu's show / hide entry is chosen, or
\* the global hotkey is pressed
toggle_window_visibility ==
    /\ Click
    /\ IF visible
       THEN Hide
       ELSE /\ visible' = TRUE
            /\ action_show_hide' = "Hide Window"
    /\ ev' = NoEvent
    /\ UNCHANGED <<scheduler, app_exec>>

\* "Quit Triangle Saver" is chosen in the tray menu: the event loop ends
quit_app ==
    /\ Click
    /\ app_exec' = FALSE
    /\ ev' = NoEvent
    /\ UNCHANGED <<scheduler, visible, action_show_hide>>

NextWindow ==
    \/ Elapse
    \/ AppsChange
    \/ \E b \in Buttons : set_interval(b)
    \/ \E unit \in {"SEC", "MIN"} : set_time_unit(unit)
    \/ \E text \in CustomTexts : set_custom_interval(text)
    \/ toggle_running
    \/ timer_loop
    \/ closeEvent
    \/ close_app
    \/ toggle_window_visibility
    \/ quit_app

\* the scheduler together with the window, the tray menu and quitting
SpecWindow == Init /\ [][NextWindow]_vars

\* ------------------------------------------------------------ properties

\* every clock reading of the explored behaviours
Clock == Epoch..(Epoch + MaxElapsed)

\* the texts lbl_last_saved shows for the outcome Saved, and for Failed
SavedTexts  == {"Saved @ " \o strftime(t) : t \in Clock}
FailedTexts == {"Save failed @ " \o strftime(t) : t \in Clock}

\* the workspace lists an application whose name matches
TargetPresent == \E name \in running_apps : NameMatches(name)

\* C1: the configured interval is strictly positive in every reachable
\* state (a request for an interval <= 0 is rejected).
C1_IntervalPositive == interval_seconds > 0

\* C2: a tick while Monitoring with next_save_time - now > 0 takes no
\* action: no probe, no save, no sound, next_save_time and the outcome text
\* unchanged.
C2_NoActionBeforeDue ==
    [][(is_running /\ next_save_time - now > 0 /\ timer_loop)
         => /\ ev'.probes = 0 /\ ev'.saves = 0 /\ ev'.notifies = 0
            /\ next_save_time' = next_save_time
            /\ lbl_last_saved' = lbl_last_saved]_vars

\* C3: a start command at time T while Idle moves the scheduler to
\* Monitoring with next_save_time = T + interval, for the interval
\* configured at that moment.
C3_StartSetsDueTime ==
    [][(~is_running /\ is_running')
         => /\ next_save_time' = now + interval_seconds * TicksPerSecond
            /\ now' = now
            /\ interval_seconds' = interval_seconds]_vars

\* a start with a configured interval other than the default has just
\* happened: no save yet, and the due time is one interval from now
C3_Witness ==
    /\ is_running
    /\ interval_seconds # DefaultInterval
    /\ lbl_last_saved = "Waiting to start..."
    /\ ev = NoEvent
    /\ next_save_time = now + interval_seconds * TicksPerSecond

\* C4: a tick while Monitoring with next_save_time - now <= 0 whose probe
\* finds the target running invokes the save exactly once, and the outcome
\* text is Saved iff the invocation succeeded and Failed otherwise.
C4_DueTickSavesOnce ==
    [][(/\ is_running /\ next_save_time - now <= 0
        /\ TargetPresent /\ ~ev'.raised
        /\ timer_loop)
         => /\ ev'.saves = 1
            /\ ev'.ok <=> lbl_last_saved' \in SavedTexts
            /\ ~ev'.ok <=> lbl_last_saved' \in FailedTexts]_vars

\* a tick at or after the due time has made a successful save attempt
C4_Witness ==
    /\ ev.saves = 1 /\ ev.ok /\ ev.present
    /\ ev.due <= ev.t0
    /\ lbl_last_saved \in SavedTexts

\* C5 as stated: after a failed save attempt the outcome is Failed, the
\* scheduler stays Monitoring and next_save_time is the time the tick began
\* plus the interval.
C5_FailedAdvancesFromTickTime ==
    [][(ev'.saves = 1 /\ ~ev'.ok /\ timer_loop)
         => /\ lbl_last_saved' \in FailedTexts
            /\ is_running'
            /\ next_save_time' = now + interval_seconds * TicksPerSecond]_vars

\* C5 as amended: after a failed save attempt the outcome is Failed, the
\* scheduler stays Monitoring and next_save_time is the clock reading taken
\* once the invocation has returned plus the interval, never earlier than
\* the time the tick began plus the interval.
C5_FailedAdvancesFromReturn ==
    [][(ev'.saves = 1 /\ ~ev'.ok /\ timer_loop)
         => /\ lbl_last_saved' \in FailedTexts
            /\ is_running'
            /\ next_save_time' = now' + interval_seconds * TicksPerSecond
            /\ now' >= now]_vars

\* a failed save attempt that took time has just returned
C5_Witness ==
    /\ is_running
    /\ ev.saves = 1 /\ ~ev.ok
    /\ ev.t0 < now
    /\ lbl_last_saved \in FailedTexts
    /\ next_save_time = now + interval_seconds * TicksPerSecond

\* C6: a tick while Monitoring with next_save_time - now <= 0 and the
\* target absent invokes no save, shows Paused and leaves next_save_time
\* unchanged; the tick that follows a paused tick probes the target again.
C6_AbsentTargetDefers ==
    [][/\ (is_running /\ next_save_time - now <= 0 /\ ~TargetPresent
            /\ timer_loop)
          => /\ ev'.probes = 1 /\ ev'.saves = 0
             /\ lbl_timer' = "PAUSED"
             /\ lbl_timer_desc' = "Open Ableton to resume"
             /\ next_save_time' = next_save_time
             /\ is_running'
       /\ (PausedTick(ev) /\ timer_loop) => ev'.probes = 1]_vars

\* two ticks in a row, at or after the due time, have found the target
\* absent: Paused is shown and the due time is still the one that passed
C6_Witness ==
    /\ is_running
    /\ PausedTick(ev) /\ ev.after_pause /\ ~ev.raised
    /\ ~TargetPresent
    /\ lbl_timer = "PAUSED"
    /\ next_save_time = ev.due /\ next_save_time <= ev.t0

\* C7 as stated: the tick at time t that finds the target present after
\* paused ticks makes the one save attempt, and afterwards next_save_time =
\* t + interval.
C7_NoCatchUpFromTickTime ==
    [][(PausedTick(ev) /\ ev'.saves >= 1 /\ timer_loop)
         => /\ ev'.saves = 1
            /\ next_save_time' = now + interval_seconds * TicksPerSecond]_vars

\* C7 as amended: across the paused ticks and the tick that finds the target
\* present, which begins at time t, exactly one save attempt is made, by
\* that last tick; afterwards next_save_time = t' + interval for the clock
\* reading t' >= t taken once the attempt has returned, which is later than
\* (missed due time) + interval whenever the missed due time lies before t.
C7_NoCatchUp ==
    [][(PausedTick(ev) /\ timer_loop)
         => \/ /\ PausedTick(ev')
               /\ next_save_time' = next_save_time
            \/ /\ ev'.saves = 1
               /\ ev'.t0 = now /\ now' >= now
               /\ next_save_time' = now' + interval_seconds * TicksPerSecond
               /\ next_save_time < now
                    => next_save_time' >
                         next_save_time + interval_seconds * TicksPerSecond]_vars

\* the save deferred by a paused tick has been attempted, it took time, and
\* the new due time is not one interval after the one that was missed
C7_Witness ==
    /\ is_running
    /\ ev.saves = 1 /\ ev.after_pause
    /\ ev.due < ev.t0 /\ ev.t0 < now
    /\ next_save_time = now + interval_seconds * TicksPerSecond
    /\ next_save_time # ev.due + interval_seconds * TicksPerSecond

\* C8: the tick that follows a save attempt made at time t makes no save
\* attempt while t + interval has not been reached, for a positive interval.
C8_NoSecondAttemptInCycle ==
    [][(/\ ev.saves = 1 /\ interval_seconds > 0
        /\ now < ev.t0 + interval_seconds * TicksPerSecond
        /\ timer_loop)
         => ev'.saves = 0]_vars

\* C9 as stated: an interval change while Monitoring leaves next_save_time
\* and is_running unchanged, and the reschedule after a save attempt sets
\* next_save_time = (time the tick began) + the interval then configured.
C9_NewIntervalFromTickTime ==
    [][/\ (is_running /\ interval_seconds' # interval_seconds)
          => (next_save_time' = next_save_time /\ is_running')
       /\ (ev'.saves = 1 /\ timer_loop)
          => next_save_time' = now + interval_seconds * TicksPerSecond]_vars

\* C9 as amended: an interval change while Monitoring leaves next_save_time
\* and is_running unchanged, and the reschedule after a save attempt sets
\* next_save_time = (clock reading taken once the attempt has returned) +
\* the interval then configured.
C9_NewIntervalAtReschedule ==
    [][/\ (is_running /\ interval_seconds' # interval_seconds)
          => (next_save_time' = next_save_time /\ is_running')
       /\ (ev'.saves = 1 /\ timer_loop)
          => /\ next_save_time' = now' + interval_seconds * TicksPerSecond
             /\ interval_seconds' = interval_seconds]_vars

\* the interval was changed while Monitoring, and the save attempt that
\* followed has rescheduled with it
C9_Witness ==
    /\ is_running /\ changed_in_run
    /\ ev.saves = 1
    /\ interval_seconds \in {intervals[b] : b \in Buttons}
    /\ next_save_time = now + interval_seconds * TicksPerSecond

\* C10 as stated: next_save_time is defined (non-zero) iff is_running.
C10_DueTimeDefinedIffRunning == is_running <=> next_save_time # 0

\* C10 as amended: next_save_time is undefined (0) until the first start, a
\* start defines it and it is defined whenever is_running; a stop does not
\* clear it: the due time of the run that ended stays stored while Idle.
C10_DueTimeKeptByStop ==
    [][/\ is_running' => next_save_time' # 0
       /\ (~is_running /\ is_running')
          => next_save_time' = now + interval_seconds * TicksPerSecond
       /\ (is_running /\ ~is_running')
          => next_save_time' = next_save_time
       /\ (~is_running /\ ~is_running')
          => next_save_time' = next_save_time]_vars

\* the scheduler is Idle after a run and still holds that run's due time
C10_Witness == ~is_running /\ next_save_time # 0

\* C11: once a stop has made the scheduler Idle no save attempt alters its
\* state: no osascript invocation is outstanding when the stop is handled
\* (timer_loop has applied the result before it returns), the stop itself
\* leaves the outcome text and next_save_time as they are, and until the
\* next start no step, a timer_loop that was already pending included,
\* changes either of them or starts an invocation.
C11_StopCancels ==
    [][/\ (is_running /\ ~is_running')
          => /\ in_flight = 0
             /\ lbl_last_saved' = lbl_last_saved
             /\ next_save_time' = next_save_time
       /\ (~is_running /\ ~is_running')
          => /\ lbl_last_saved' = lbl_last_saved
             /\ next_save_time' = next_save_time
             /\ in_flight' = 0
             /\ ev'.saves = 0]_vars

\* a save attempt took time, so the next timer_loop was pending when the
\* stop was handled right after it; that timer_loop has now run, and the
\* outcome text and the due time are still those the attempt left
C11_Witness ==
    /\ ~is_running
    /\ ev.tick /\ ev.saves = 0 /\ ~timer_pending
    /\ lbl_last_saved \in SavedTexts \cup FailedTexts
    /\ next_save_time = now + interval_seconds * TicksPerSecond
    /\ in_flight = 0

\* C12: at most one save invocation is in flight at any time: no handler
\* returns with an osascript process still running, so every save attempt
\* starts with none in flight, after the tick before it has recorded its
\* outcome and rescheduled, whatever ticks and user commands come between.
C12_OneInFlight == in_flight = 0 /\ ev.flying <= 1

\* a save invocation blocked timer_loop for two timer periods, so the timer
\* timed out while it was running; it was the only one running, and it had
\* exited when timer_loop returned with the next tick pending
C12_Witness ==
    /\ is_running
    /\ ev.saves = 1 /\ ev.flying = 1
    /\ now >= ev.t0 + 2
    /\ timer_pending
    /\ in_flight = 0

\* C13: the completion sound is played only by a due tick whose save
\* invocation succeeded: never after a failed invocation, on a paused tick,
\* on a tick with time remaining, or while Idle.
C13_SoundOnlyOnSuccess == ev.notifies > 0 => (ev.saves = 1 /\ ev.ok)

\* C14 as stated: a stop puts the idle prompt back into every outcome
\* display: after any stop the Saved / Save failed text and the paused
\* indication are no longer shown.
C14_StopResetsOutcome ==
    [][(is_running /\ ~is_running')
         => /\ lbl_last_saved' = "Waiting to start..."
            /\ lbl_timer' # "PAUSED"
            /\ lbl_timer_desc' = "NEXT SAVE CYCLE"]_vars

\* C14 as amended: a stop puts the idle prompt "NEXT SAVE CYCLE" and the
\* configured interval back into the timer display, so the paused
\* indication is no longer shown; the text of lbl_last_saved is left as it
\* was, and once a save attempt has been made it never again reads
\* "Waiting to start...".
C14_StopKeepsOutcomeText ==
    [][/\ (is_running /\ ~is_running')
          => /\ lbl_timer_desc' = "NEXT SAVE CYCLE"
             /\ lbl_timer' = update_timer_display(interval_seconds)
             /\ lbl_timer' # "PAUSED"
             /\ lbl_last_saved' = lbl_last_saved
       /\ lbl_last_saved # "Waiting to start..."
          => lbl_last_saved' # "Waiting to start..."]_vars

\* the scheduler was stopped after a save attempt: the idle prompt is back
\* in the timer display and the outcome of the attempt is still shown
C14_Witness ==
    /\ ~is_running
    /\ ev = NoEvent
    /\ lbl_timer_desc = "NEXT SAVE CYCLE"
    /\ lbl_timer = update_timer_display(interval_seconds)
    /\ lbl_last_saved \in SavedTexts \cup FailedTexts

\* C15: when the query for the running applications raises at a due tick
\* while Monitoring, the tick ends as it does for an absent target: Paused
\* is shown, no save is attempted, next_save_time and the outcome text are
\* unchanged and the scheduler stays Monitoring; timer_loop returns
\* normally, whether or not the target is in fact running.
C15_ProbeFailureDefers ==
    [][(/\ is_running /\ next_save_time - now <= 0
        /\ ev'.raised
        /\ timer_loop)
         => /\ PausedTick(ev') /\ ~ev'.present
            /\ lbl_timer' = "PAUSED"
            /\ lbl_timer_desc' = "Open Ableton to resume"
            /\ next_save_time' = next_save_time
            /\ lbl_last_saved' = lbl_last_saved
            /\ is_running'
            /\ ~timer_pending']_vars

\* the target is running, but the query raised at a due tick: Paused is
\* shown and the due time is still the one that passed
C15_Witness ==
    /\ is_running
    /\ TargetPresent
    /\ PausedTick(ev) /\ ev.raised
    /\ lbl_timer = "PAUSED"
    /\ next_save_time = ev.due /\ next_save_time <= ev.t0

\* C16: both inputs write interval_seconds: a preset button sets it to that
\* preset's seconds (60, 300, 600 or 900); SET with a custom value v sets it
\* to v seconds for the unit SEC and to 60*v seconds for the unit MIN, cut
\* down to a whole number of seconds; SEC / MIN alone leaves it unchanged.
C16_InputsWriteInterval ==
    [][/\ \A b \in Buttons :
            set_interval(b)
              => /\ interval_seconds' = <<60, 300, 600, 900>>[b]
                 /\ interval_seconds' \in {60, 300, 600, 900}
       /\ \A unit \in {"SEC", "MIN"} :
            set_time_unit(unit) => interval_seconds' = interval_seconds
       /\ \A text \in {"0", "0.5", "1", "2.05"} :
            set_custom_interval(text)
              => LET k == IF time_unit = "MIN" THEN 60 ELSE 1
                     \* v in hundredths, so k*v is exact
                     kv == k * Hundredths(text)
                 IN  /\ interval_seconds' * 100 <= kv
                     /\ kv < (interval_seconds' + 1) * 100]_vars

\* C17: hiding or showing the window (close event, close button or Escape,
\* tray toggle, global hotkey) never stops the scheduler: such a step leaves
\* is_running, interval_seconds and next_save_time unchanged and the event
\* loop running; a due tick with the target running still makes its save
\* attempt while the window is hidden; and only quit_app ends the event
\* loop.
C17_HidingKeepsScheduler ==
    [][/\ visible' # visible
          => /\ is_running' = is_running
             /\ interval_seconds' = interval_seconds
             /\ next_save_time' = next_save_time
             /\ app_exec /\ app_exec'
       /\ (/\ ~visible /\ is_running /\ next_save_time - now <= 0
           /\ TargetPresent /\ ~ev'.raised
           /\ timer_loop)
          => ev'.saves = 1
       /\ (app_exec /\ ~app_exec') => quit_app]_vars

\* the window was hidden while the scheduler was running, and a tick has
\* made a save attempt since
C17_Witness ==
    /\ ~visible /\ action_show_hide = "Show Window"
    /\ app_exec
    /\ is_running
    /\ ev.saves = 1 /\ ev.tick
    /\ lbl_last_saved \in SavedTexts \cup FailedTexts

\* C18: while the scheduler is Idle a tick changes nothing: it makes no
\* probe and no save attempt, plays no sound and leaves the scheduler's
\* fields and every label as they are, also when the due time left by an
\* earlier run has passed; and the scheduler is Idle, with the default
\* interval of 300 s, from construction on.
C18_IdleTicksDoNothing ==
    /\ ~is_running /\ interval_seconds = 300
    /\ [][(~is_running /\ timer_loop)
            => /\ ev'.probes = 0 /\ ev'.saves = 0 /\ ev'.notifies = 0
               /\ UNCHANGED <<now, is_running, interval_seconds,
                              next_save_time, time_unit, selected, lbl_timer,
                              lbl_timer_desc, lbl_last_saved, in_flight>>]_vars

\* the scheduler was stopped, the due time of that run has passed, the
\* target is running, and a tick has run since without doing anything
C18_Witness ==
    /\ ~is_running
    /\ next_save_time # 0 /\ next_save_time < now
    /\ TargetPresent
    /\ ev = NoActionTick
    /\ ~timer_pending
    /\ lbl_timer = update_timer_display(interval_seconds)

Horizon == Epoch + MaxElapsed

\* the scheduler is Monitoring with the target running, the last handler
\* made no save attempt and met no failing query, and less than a second
\* will be left to the due time while the clock is still followed
SaveOutstanding ==
    /\ is_running /\ TargetPresent
    /\ ev.saves = 0 /\ ~ev.raised
    /\ now < Horizon
    /\ next_save_time - Horizon < TicksPerSecond

\* C20: while the scheduler stays Monitoring, ticks keep firing and the
\* target stays running (and the query for it does not fail), a save that
\* comes due is eventually attempted, in the first cycle and in each one
\* after it, and a paused scheduler does not stay paused: from every state
\* with a save outstanding, a save attempt follows unless the scheduler is
\* stopped, the target goes away or the query fails first.
C20_SaveEventuallyAttempted ==
    SaveOutstanding
      ~> (ev.saves = 1 \/ ~is_running \/ ~TargetPresent \/ ev.raised)

\* the scheduler was paused at a due time that had passed, the target has
\* appeared, and the next tick has made the save attempt
C20_Witness ==
    /\ is_running /\ TargetPresent
    /\ ev.saves = 1 /\ ev.after_pause
    /\ ev.due <= ev.t0

\* C21: the paused indication is shown only while a due save is being
\* deferred: while the scheduler is Monitoring, once a tick has made the save
\* attempt the description no longer reads "Open Ableton to resume", and
\* after a tick that found time remaining the description reads
\* "MONITORING ABLETON..." and the timer display shows the time, not "PAUSED".
C21_PausedOnlyWhileDeferred ==
    /\ (is_running /\ ev.saves = 1)
         => lbl_timer_desc # "Open Ableton to resume"
    /\ (is_running /\ ev.tick /\ ev.probes = 0)
         => /\ lbl_timer_desc = "MONITORING ABLETON..."
            /\ lbl_timer # "PAUSED"

\* the texts of CustomTexts that float() or int() does not turn into a
\* finite number
NotFinite == {text \in CustomTexts : float(text).cls # "finite"}

\* C22: a custom-interval submission whose text is not a finite number
\* (empty, non-numeric, NaN or infinite) changes nothing: the interval, the
\* run flag, the due time, the preset selection, the unit and every label
\* are as before, the exception is swallowed inside the handler, and the
\* event loop keeps running.
C22_RejectedSubmissionChangesNothing ==
    /\ NotFinite = {"", "abc", "nan", "inf"}
    /\ [][\A text \in NotFinite :
            set_custom_interval(text)
              => /\ ev'.caught \in {"ValueError", "OverflowError"}
                 /\ UNCHANGED <<interval_seconds, is_running, next_save_time,
                                selected, time_unit, lbl_timer,
                                lbl_timer_desc, lbl_last_saved>>
                 /\ app_exec /\ app_exec']_vars

\* SET was clicked with an infinite value while the scheduler was counting
\* down from the 1m preset: the preset is still selected, the interval is
\* still its 60 s and the display still shows the countdown
C22_Witness ==
    /\ ev.caught = "OverflowError"
    /\ app_exec
    /\ is_running
    /\ selected[1] /\ interval_seconds = 60
    /\ next_save_time > now
    /\ lbl_timer = "00:59"

\* C23: whenever the scheduler is Idle the time display is the configured
\* interval as MM:SS, minutes = interval div 60 and seconds = interval mod
\* 60, each with at least two digits: initially, after every preset or
\* custom change made while Idle, and after every stop, whatever the
\* display showed and whatever was changed while Monitoring.
C23_IdleDisplayIsInterval ==
    ~is_running
      => lbl_timer = Format02d(interval_seconds \div 60) \o ":"
                       \o Format02d(interval_seconds % 60)

\* the scheduler has been started with the default interval and is stopped
\* again, and the interval was set to 122 s in between or after: the display
\* shows 02:02
C23_Witness ==
    /\ ~is_running
    /\ lbl_timer_desc = "NEXT SAVE CYCLE"
    /\ next_save_time >= Epoch + DefaultInterval * TicksPerSecond
    /\ interval_seconds = 122
    /\ lbl_timer = "02:02"

\* the preset buttons marked selected
SelectedButtons == {b \in Buttons : selected[b]}

\* C24: after any sequence of preset selections and custom submissions at
\* most one preset button is marked selected, and whenever one is selected
\* the configured interval is that button's duration; a custom submission
\* that is accepted leaves no preset selected.
C24_SelectionMatchesInterval ==
    /\ [](/\ Cardinality(SelectedButtons) <= 1
          /\ \A b \in SelectedButtons :
                interval_seconds = <<60, 300, 600, 900>>[b])
    \* no step that ends with a preset selected is an accepted submission
    /\ [][\A text \in CustomTexts \ NotFinite :
            ~(SelectedButtons' # {} /\ set_custom_interval(text))]_vars

\* a custom value of one minute was accepted: the interval is the duration
\* of the 1m preset, and no preset button is selected
C24_Witness ==
    /\ SelectedButtons = {}
    /\ interval_seconds = 60
    /\ lbl_timer = "01:00"

====
